---- MODULE Spec2Model ----
(***************************************************************************)
(* HeatMap engine of QuantSandbox (src/TALIB_INDICATORS.md, lines 689-946) *)
(* as a state machine: a result set, a config and zoom ranges are drawn,   *)
(* buildHeatMap is applied, and a cell of the returned matrix is clicked,  *)
(* which re-applies buildHeatMap with that cell's zoomRanges.  The         *)
(* application around the engine is modelled too: the HeatMapConfigurator  *)
(* (indicator and axis toggles, fixed values, handleGenerate), the mock    *)
(* results of handleGenerateHeatMap and the zoom stack with its cell       *)
(* click, zoom out and reset handlers.                                     *)
(*                                                                         *)
(* JS numbers are modelled as exact rationals <<n, d>> with d > 0 in       *)
(* lowest terms; NaN is <<0, 0>>.  JS null / undefined is Null; an         *)
(* optional number is Null or <<v>>.  A JS object used as a map is a       *)
(* function on its keys, so the empty object and Null coincide: the code   *)
(* treats both alike (line 802 filters nothing on {}, line 929 never       *)
(* returns {}).  A thrown TypeError is the value Thrown.                   *)
(***************************************************************************)
EXTENDS Integers, Sequences, FiniteSets, TLC

VARIABLES
  items,              \* generatedHeatMap.fullResults / the results argument
  config,             \* generatedHeatMap.config / the config argument
  zoomRanges,         \* heatMapZoomRanges / the zoomRanges argument
  out,                \* currentHeatMapData
  pc,                 \* "ready", "built", or "idle" (generatedHeatMap is null)
  clicked,            \* the last drill-in: the cell and the state it was clicked in
  zoomStack,          \* generatedHeatMap.zoomStack
  runId,              \* generatedHeatMap.runId, Null while generatedHeatMap is null
  configurator,       \* the state of the HeatMapConfigurator while it is mounted
  showHeatMapConfig,  \* the heatMapId whose configurator is shown, or Null
  alerted,            \* handleGenerate has raised its alert
  last                \* the handler that made the last step

vars == <<items, config, zoomRanges, out, pc, clicked,
          zoomStack, runId, configurator, showHeatMapConfig, alerted, last>>

\* the state of the heat map and the state of the configurator
heatVars == <<items, config, zoomRanges, out, pc, clicked, zoomStack, runId>>

configVars == <<configurator, showHeatMapConfig, alerted>>

----------------------------------------------------------------------------
(* Numbers *)

Null == <<>>

NaN == <<0, 0>>

RECURSIVE GCD(_, _)
GCD(a, b) == IF b = 0 THEN a ELSE GCD(b, a % b)

Abs(n) == IF n < 0 THEN -n ELSE n

\* The rational n/d (d # 0) in lowest terms with a positive denominator.
Rat(n, d) ==
  LET g == GCD(Abs(n), Abs(d))
      s == IF d < 0 THEN -1 ELSE 1
  IN <<(s * n) \div g, (s * d) \div g>>

Num(n) == <<n, 1>>

Half == <<1, 2>>

IsNaN(a) == a[2] = 0

RAdd(a, b) == IF IsNaN(a) \/ IsNaN(b) THEN NaN
              ELSE Rat(a[1] * b[2] + b[1] * a[2], a[2] * b[2])

RSub(a, b) == IF IsNaN(a) \/ IsNaN(b) THEN NaN
              ELSE Rat(a[1] * b[2] - b[1] * a[2], a[2] * b[2])

RMul(a, b) == IF IsNaN(a) \/ IsNaN(b) THEN NaN
              ELSE Rat(a[1] * b[1], a[2] * b[2])

\* a / n for an integer n > 0
RDivInt(a, n) == IF IsNaN(a) THEN NaN ELSE Rat(a[1], a[2] * n)

\* Comparisons of JS numbers: every comparison with NaN is false.
RLess(a, b) == ~IsNaN(a) /\ ~IsNaN(b) /\ a[1] * b[2] < b[1] * a[2]

RLeq(a, b) == ~IsNaN(a) /\ ~IsNaN(b) /\ a[1] * b[2] <= b[1] * a[2]

\* Math.floor of a rational that is not NaN
Floor(a) == a[1] \div a[2]

\* Math.max / Math.min: NaN if either argument is NaN
MathMax(a, b) == IF IsNaN(a) \/ IsNaN(b) THEN NaN ELSE IF RLess(a, b) THEN b ELSE a

MathMin(a, b) == IF IsNaN(a) \/ IsNaN(b) THEN NaN ELSE IF RLess(b, a) THEN b ELSE a

clamp(v, a, b) == MathMax(a, MathMin(b, v))

clamp01(v) == clamp(v, Num(0), Num(1))

\* Math.ceil(Math.sqrt(n)) for an integer n >= 0
CeilSqrt(n) == CHOOSE c \in 0..n : c * c >= n /\ \A e \in 0..(c - 1) : e * e < n

----------------------------------------------------------------------------
(* Sequences *)

Range(s) == {s[i] : i \in DOMAIN s}

RECURSIVE SumSeq(_)
SumSeq(s) == IF s = <<>> THEN Num(0) ELSE RAdd(Head(s), SumSeq(Tail(s)))

\* the elements of s with element i moved to position pos[i]
permuted(s, pos) == [p \in DOMAIN s |-> s[CHOOSE i \in DOMAIN s : pos[i] = p]]

\* Array.prototype.sort with a comparator that is the difference of two
\* numbers: a stable sort.  key[i] is the number of element i; element i
\* goes after every element with a smaller key and after the earlier
\* elements with the same key.
StableSort(s, key) ==
  permuted(s, [i \in DOMAIN s |->
                 1 + Cardinality({j \in DOMAIN s : \/ RLess(key[j], key[i])
                                                   \/ ~RLess(key[i], key[j]) /\ j < i})])

----------------------------------------------------------------------------
(* Engine constants *)

HEATMAP_MAX_SIZE == 15

desiredMin == 9

DesiredMaxCap == 13

desiredMax == IF HEATMAP_MAX_SIZE < DesiredMaxCap THEN HEATMAP_MAX_SIZE ELSE DesiredMaxCap

\* filtered.length >= 100 forces index coordinates
IndexCoordsThreshold == 100

\* Math.max(10, ...) in the size of the top group used for centering
TopKMin == 10

\* Math.floor(sorted.length * 0.06), the factor as a percentage
TopKPercent == 6

----------------------------------------------------------------------------
(* Helpers of the engine *)

\* it.params?.[k]: Null when the result has no value for k
Param(it, k) == IF k \in DOMAIN it.params THEN <<it.params[k]>> ELSE Null

\* quantile(sortedArr, q), q a rational
quantile(sortedArr, q) ==
  IF Len(sortedArr) = 0 THEN Num(0)
  ELSE LET pos  == RMul(Num(Len(sortedArr) - 1), q)
           base == Floor(pos)
           rest == RSub(pos, Num(base))
       IN \* indices are 0-based in the code: sortedArr[base] is element base + 1
          IF base + 2 > Len(sortedArr) THEN sortedArr[base + 1]
          ELSE RAdd(sortedArr[base + 1],
                    RMul(rest, RSub(sortedArr[base + 2], sortedArr[base + 1])))

\* The values present for key k among the results its
ValuesOf(its, k) == {its[i].params[k] : i \in {j \in DOMAIN its : k \in DOMAIN its[j].params}}

SetMin(S) == CHOOSE m \in S : \A v \in S : m <= v

SetMax(S) == CHOOSE m \in S : \A v \in S : m >= v

\* One entry of computeRanges: {min, max} as <<min, max>>, or Null for
\* {min: null, max: null} when no result has a value for k.
RangeOf(its, k) ==
  LET vs == ValuesOf(its, k)
  IN IF vs = {} THEN Null ELSE <<SetMin(vs), SetMax(vs)>>

\* computeRanges(items, keys): keys is a list; the result maps each key
computeRanges(its, keys) == [k \in Range(keys) |-> RangeOf(its, k)]

\* normalizeParam(v, min, max); v is Param(it, k), r the entry of ranges
\* (Null when ranges[k].min and .max are null).  A missing v with a
\* non-degenerate range gives (undefined - min) / (max - min) = NaN.
normalizeParam(v, r) ==
  IF r = Null \/ r[2] = r[1] THEN Half
  ELSE IF v = Null THEN NaN
  ELSE clamp01(Rat(v[1] - r[1], r[2] - r[1]))

\* config.xAxis && config.xAxis.length ? config.xAxis : ["x"]
xParamsOf(cfg) == IF Len(cfg.xAxis) > 0 THEN cfg.xAxis ELSE <<"x">>

yParamsOf(cfg) == IF Len(cfg.yAxis) > 0 THEN cfg.yAxis ELSE <<"y">>

axisKeysOf(cfg) == Range(xParamsOf(cfg)) \cup Range(yParamsOf(cfg))

\* A faulty variant of passesFixed: the skip of axis keys (line 796) left out.
passesFixedAllKeys(it, cfg) ==
  \A k \in DOMAIN cfg.fixedParams : Param(it, k) = <<cfg.fixedParams[k]>>

\* Step 1a: the predicate of the fixedParams filter
passesFixed(it, cfg) ==
  \A k \in DOMAIN cfg.fixedParams :
     \/ k \in axisKeysOf(cfg)
     \/ Param(it, k) = <<cfg.fixedParams[k]>>

\* A faulty variant of passesZoom: the bounds taken as exclusive.
passesZoomExclusive(it, cfg, zr) ==
  \A k \in axisKeysOf(cfg) :
     \/ k \notin DOMAIN zr
     \/ zr[k] = Null
     \/ /\ Param(it, k) # Null
        /\ it.params[k] > zr[k][1]
        /\ it.params[k] < zr[k][2]

\* A faulty variant of passesZoom: every key of zoomRanges is applied, not
\* only the axis keys.
passesZoomAllKeys(it, cfg, zr) ==
  \A k \in DOMAIN zr :
     \/ zr[k] = Null
     \/ /\ Param(it, k) # Null
        /\ it.params[k] >= zr[k][1]
        /\ it.params[k] <= zr[k][2]

\* Step 1b: the predicate of the zoomRanges filter; zr maps keys to
\* <<min, max>>, or to Null for an entry whose min or max is null
passesZoom(it, cfg, zr) ==
  \A k \in axisKeysOf(cfg) :
     \/ k \notin DOMAIN zr
     \/ zr[k] = Null
     \/ /\ Param(it, k) # Null
        /\ it.params[k] >= zr[k][1]
        /\ it.params[k] <= zr[k][2]

filteredOf(its, cfg, zr) ==
  LET f1 == SelectSeq(its, LAMBDA it : passesFixed(it, cfg))
  IN IF zr = Null THEN f1 ELSE SelectSeq(f1, LAMBDA it : passesZoom(it, cfg, zr))

\* A faulty variant of gridSide: Math.round(Math.sqrt(N) * (desiredMax -
\* desiredMin) + desiredMin), the division by 6 and both clamps left out.
gridSideNoClamp(N) ==
  LET D == desiredMax - desiredMin
      reached(k) ==
        LET j == 2 * (k - desiredMin) - 1
        IN j <= 0 \/ j * j <= 4 * D * D * N
  IN CHOOSE k \in desiredMin..(desiredMin + D * N + 1) :
        reached(k) /\ ~reached(k + 1)

\* A faulty variant of gridSide that keeps state between calls: the side is
\* computed only once a heat map has been built, the first call returns
\* desiredMin.
gridSideCold(N) ==
  LET D == desiredMax - desiredMin
      reached(k) ==
        LET j == 2 * (k - desiredMin) - 1
        IN \/ j <= 0
           \/ N >= 36 /\ j <= 2 * D
           \/ N < 36 /\ 9 * j * j <= D * D * N
  IN IF pc # "built" THEN desiredMin
     ELSE CHOOSE k \in desiredMin..desiredMax :
            reached(k) /\ \A m \in (k + 1)..desiredMax : ~reached(m)

\* Math.round(clamp(Math.sqrt(Math.max(N, 1)) / 6, 0, 1) * (desiredMax - desiredMin) + desiredMin)
\* for N >= 1, then clamped to desiredMin..desiredMax.  Math.round(v) is the
\* greatest integer k with k - 1/2 <= v; with D = desiredMax - desiredMin and
\* t = min(1, sqrt(N)/6), k - 1/2 <= t*D + desiredMin holds iff
\* j = 2*(k - desiredMin) - 1 <= 0, or N >= 36 and j <= 2*D, or 9*j*j <= D*D*N.
gridSide(N) ==
  LET D == desiredMax - desiredMin
      reached(k) ==
        LET j == 2 * (k - desiredMin) - 1
        IN \/ j <= 0
           \/ N >= 36 /\ j <= 2 * D
           \/ N < 36 /\ 9 * j * j <= D * D * N
  IN CHOOSE k \in desiredMin..desiredMax :
        reached(k) /\ \A m \in (k + 1)..desiredMax : ~reached(m)

\* some key of the axis has a non-degenerate range (lines 826-833)
rangeValid(params, ranges) ==
  \E i \in DOMAIN params :
     ranges[params[i]] # Null /\ ranges[params[i]][2] # ranges[params[i]][1]

\* A faulty variant of useIndexCoordsOf: the threshold taken as exclusive.
useIndexCoordsOfAbove(filtered, xParams, yParams, ranges) ==
  \/ ~rangeValid(xParams, ranges)
  \/ ~rangeValid(yParams, ranges)
  \/ Len(filtered) > IndexCoordsThreshold

\* useIndexCoords (line 834)
useIndexCoordsOf(filtered, xParams, yParams, ranges) ==
  \/ ~rangeValid(xParams, ranges)
  \/ ~rangeValid(yParams, ranges)
  \/ Len(filtered) >= IndexCoordsThreshold

\* A faulty variant of indexCoords: every result placed at (0.5, 0.5).
indexCoordsHalf(index, n) == [xCoord |-> Half, yCoord |-> Half]

\* index coordinates of the result at 0-based position index among n
indexCoords(index, n) ==
  LET c0   == CeilSqrt(n)
      cols == IF c0 < 1 THEN 1 ELSE c0
      r0   == (n + cols - 1) \div cols
      rows == IF r0 < 1 THEN 1 ELSE r0
      col  == index % cols
      row  == index \div cols
  IN [xCoord |-> clamp01(IF cols > 1 THEN Rat(col, cols - 1) ELSE Half),
      yCoord |-> clamp01(IF rows > 1 THEN Rat(row, rows - 1) ELSE Half)]

\* parameter coordinates of a result: per axis the mean of normalizeParam
axisCoord(it, params, ranges) ==
  RDivInt(SumSeq([i \in DOMAIN params |->
                    normalizeParam(Param(it, params[i]), ranges[params[i]])]),
          IF Len(params) < 1 THEN 1 ELSE Len(params))

paramCoords(it, xParams, yParams, ranges) ==
  [xCoord |-> axisCoord(it, xParams, ranges),
   yCoord |-> axisCoord(it, yParams, ranges)]

\* { ...it, xCoord, yCoord }
addCoords(it, c) ==
  [id |-> it.id, params |-> it.params, score |-> it.score,
   xCoord |-> c.xCoord, yCoord |-> c.yCoord]

\* withCoords (lines 836-856)
withCoordsOf(filtered, xParams, yParams, ranges, useIndexCoords) ==
  [i \in DOMAIN filtered |->
     addCoords(filtered[i],
               IF useIndexCoords THEN indexCoords(i - 1, Len(filtered))
               ELSE paramCoords(filtered[i], xParams, yParams, ranges))]

\* A faulty variant of scoreKey: b.score - a.score whatever the direction.
scoreKeyDescending(scoreDirection, it) == Num(0 - it.score)

\* the number the sort by score (line 863) orders the results by:
\* a.score - b.score for "min", b.score - a.score otherwise
scoreKey(scoreDirection, it) ==
  IF scoreDirection = "min" THEN Num(it.score) ELSE Num(0 - it.score)

\* A faulty variant of topK: 60% of the results in place of 6%.
topKSixtyPercent(n) ==
  LET pct == (n * 10 * TopKPercent) \div 100
      m   == IF n < pct THEN n ELSE pct
  IN IF m < TopKMin THEN TopKMin ELSE m

\* k = Math.max(10, Math.min(sorted.length, Math.floor(sorted.length * 0.06)))
topK(n) ==
  LET pct == (n * TopKPercent) \div 100
      m   == IF n < pct THEN n ELSE pct
  IN IF m < TopKMin THEN TopKMin ELSE m

\* sorted.slice(0, k)
topOf(sorted) ==
  SubSeq(sorted, 1, IF topK(Len(sorted)) < Len(sorted) THEN topK(Len(sorted)) ELSE Len(sorted))

\* top.map((t) => t.xCoord) and top.map((t) => t.yCoord)
coordsOf(top) ==
  [x |-> [i \in DOMAIN top |-> top[i].xCoord],
   y |-> [i \in DOMAIN top |-> top[i].yCoord]]

\* the medians of the sorted coordinates of top (lines 867-870)
medianOf(top) ==
  [x |-> quantile(StableSort(coordsOf(top).x, coordsOf(top).x), Half),
   y |-> quantile(StableSort(coordsOf(top).y, coordsOf(top).y), Half)]

\* centerX / centerY when centering is not skipped; coordinates not NaN
centerOf(withCoords, scoreDirection) ==
  medianOf(topOf(StableSort(withCoords,
                            [i \in DOMAIN withCoords |->
                               scoreKey(scoreDirection, withCoords[i])])))

\* xCentered of a coordinate (lines 874-875)
centerCoord(c, center, skipCentering) ==
  IF skipCentering THEN c ELSE clamp01(RAdd(RSub(c, center), Half))

\* centered (lines 873-877)
centeredOf(withCoords, center, skipCentering) ==
  [i \in DOMAIN withCoords |->
     [id     |-> withCoords[i].id,
      params |-> withCoords[i].params,
      score  |-> withCoords[i].score,
      xCoord |-> withCoords[i].xCoord,
      yCoord |-> withCoords[i].yCoord,
      xCentered |-> centerCoord(withCoords[i].xCoord, center.x, skipCentering),
      yCentered |-> centerCoord(withCoords[i].yCoord, center.y, skipCentering)]]

\* A faulty variant of binIndex: the upper clamp Math.min(X - 1, .) left out.
binIndexNoUpperClamp(c, X) ==
  LET f == Floor(RMul(c, Num(X)))
  IN IF f < 0 THEN 0 ELSE f

\* Math.min(X - 1, Math.max(0, Math.floor(c * X))) for c not NaN
binIndex(c, X) ==
  LET f == Floor(RMul(c, Num(X)))
  IN IF f < 0 THEN 0 ELSE IF f > X - 1 THEN X - 1 ELSE f

\* A faulty variant of binsOf: the column taken from yCentered and the row
\* from xCentered.
binsOfTransposed(centered, X, Y) ==
  [i \in DOMAIN centered |->
     [xi |-> binIndex(centered[i].yCentered, X),
      yi |-> binIndex(centered[i].xCentered, Y)]]

\* the bucket indices of the results (lines 880-884)
binsOf(centered, X, Y) ==
  [i \in DOMAIN centered |->
     [xi |-> binIndex(centered[i].xCentered, X),
      yi |-> binIndex(centered[i].yCentered, Y)]]

\* cells[yi][xi] after the loop of lines 880-884, in insertion order
bucketOf(centered, bins, yi, xi) ==
  LET idx == SelectSeq([i \in DOMAIN centered |-> i],
                       LAMBDA i : bins[i].xi = xi /\ bins[i].yi = yi)
  IN [j \in DOMAIN idx |-> centered[idx[j]]]

\* A faulty variant of cellZoomRanges: the ranges of the first result of the
\* bucket alone.
cellZoomRangesOfFirst(bucket, xParams, yParams) ==
  LET zr == computeRanges(SubSeq(bucket, 1, 1), xParams \o yParams)
  IN [k \in {j \in DOMAIN zr : zr[j] # Null} |-> zr[k]]

\* A faulty variant of cellZoomRanges: the keys with a degenerate range
\* (max = min) are deleted too.
cellZoomRangesNonDegenerate(bucket, xParams, yParams) ==
  LET zr == computeRanges(bucket, xParams \o yParams)
  IN [k \in {j \in DOMAIN zr : zr[j] # Null /\ zr[j][2] > zr[j][1]} |-> zr[k]]

\* zoomRanges of a non-empty cell: computeRanges over all axis keys with the
\* keys whose min is null deleted; null when no key is left
cellZoomRanges(bucket, xParams, yParams) ==
  LET zr == computeRanges(bucket, xParams \o yParams)
  IN [k \in {j \in DOMAIN zr : zr[j] # Null} |-> zr[k]]

\* A faulty variant of emptyCell: the average of no scores given as 0.
emptyCellZeroAvg(xi, yi, xParams, yParams) ==
  [xi |-> xi, yi |-> yi, count |-> 0,
   avgScore |-> Num(0), minScore |-> Null, maxScore |-> Null,
   paramRanges |-> [x |-> computeRanges(<<>>, xParams),
                    y |-> computeRanges(<<>>, yParams)],
   results |-> <<>>,
   zoomRanges |-> Null]

\* the placeholder of an empty bucket (lines 892-903)
emptyCell(xi, yi, xParams, yParams) ==
  [xi |-> xi, yi |-> yi, count |-> 0,
   avgScore |-> Null, minScore |-> Null, maxScore |-> Null,
   paramRanges |-> [x |-> computeRanges(<<>>, xParams),
                    y |-> computeRanges(<<>>, yParams)],
   results |-> <<>>,
   zoomRanges |-> Null]

\* A faulty variant of filledCell: avgScore is the score of the first result
\* of the bucket.
filledCellFirstScore(bucket, xi, yi, xParams, yParams) ==
  [xi |-> xi, yi |-> yi, count |-> Len(bucket),
   avgScore |-> Num(bucket[1].score),
   minScore |-> Num(SetMin({bucket[i].score : i \in DOMAIN bucket})),
   maxScore |-> Num(SetMax({bucket[i].score : i \in DOMAIN bucket})),
   paramRanges |-> [x |-> computeRanges(bucket, xParams),
                    y |-> computeRanges(bucket, yParams)],
   results |-> bucket,
   zoomRanges |-> cellZoomRanges(bucket, xParams, yParams)]

\* the element of a bucket with results (lines 905-930)
filledCell(bucket, xi, yi, xParams, yParams) ==
  [xi |-> xi, yi |-> yi, count |-> Len(bucket),
   avgScore |-> RDivInt(SumSeq([i \in DOMAIN bucket |-> Num(bucket[i].score)]),
                        Len(bucket)),
   minScore |-> Num(SetMin({bucket[i].score : i \in DOMAIN bucket})),
   maxScore |-> Num(SetMax({bucket[i].score : i \in DOMAIN bucket})),
   paramRanges |-> [x |-> computeRanges(bucket, xParams),
                    y |-> computeRanges(bucket, yParams)],
   results |-> bucket,
   zoomRanges |-> cellZoomRanges(bucket, xParams, yParams)]

\* one element of the matrix (lines 890-931)
cellOf(bucket, xi, yi, xParams, yParams) ==
  IF Len(bucket) = 0 THEN emptyCell(xi, yi, xParams, yParams)
  ELSE filledCell(bucket, xi, yi, xParams, yParams)

NullResult == [kind |-> "null"]

\* cells[yi][xi].push(it) with xi or yi NaN: a TypeError leaves buildHeatMap
Thrown == [kind |-> "error"]

\* A faulty variant of matrixOf: scoreMin and scoreMax taken over the
\* averages of the cells.
matrixOfAverages(centered, bins, X, Y, center, xParams, yParams) ==
  LET cells == [c \in {<<bins[i].yi, bins[i].xi>> : i \in DOMAIN centered} |->
                  cellOf(bucketOf(centered, bins, c[1], c[2]), c[2], c[1], xParams, yParams)]
      avgs == {cells[c].avgScore : c \in DOMAIN cells}
  IN [kind |-> "matrix",
      N |-> Len(centered), W |-> X, H |-> Y,
      scoreMin |-> CHOOSE v \in avgs : \A w \in avgs : RLeq(v, w),
      scoreMax |-> CHOOSE v \in avgs : \A w \in avgs : RLeq(w, v),
      centerX |-> center.x, centerY |-> center.y,
      cells |-> cells,
      xKeys |-> xParams, yKeys |-> yParams]

\* The returned object (lines 886-946).  `cells` keeps the elements of the
\* buckets that received a result, keyed by <<yi, xi>>; cellAt gives every
\* element of the H x W grid.
matrixOf(centered, bins, X, Y, center, xParams, yParams) ==
  [kind |-> "matrix",
   N |-> Len(centered), W |-> X, H |-> Y,
   scoreMin |-> Num(SetMin({centered[i].score : i \in DOMAIN centered})),
   scoreMax |-> Num(SetMax({centered[i].score : i \in DOMAIN centered})),
   centerX |-> center.x, centerY |-> center.y,
   cells |-> [c \in {<<bins[i].yi, bins[i].xi>> : i \in DOMAIN centered} |->
                cellOf(bucketOf(centered, bins, c[1], c[2]), c[2], c[1], xParams, yParams)],
   xKeys |-> xParams, yKeys |-> yParams]

\* lines 873-946 given the centre
binned(centered, X, Y, center, xParams, yParams) ==
  CHOOSE m \in {matrixOf(centered, bins, X, Y, center, xParams, yParams) :
                  bins \in {binsOf(centered, X, Y)}} : TRUE

\* lines 858-946: a NaN coordinate makes xi or yi NaN and the push throws
centred(withCoords, skipCentering, X, Y, center, xParams, yParams) ==
  IF \E i \in DOMAIN withCoords : IsNaN(withCoords[i].xCoord) \/ IsNaN(withCoords[i].yCoord)
  THEN Thrown
  ELSE CHOOSE m \in {binned(centered, X, Y, center, xParams, yParams) :
                       centered \in {centeredOf(withCoords, center, skipCentering)}} : TRUE

\* lines 836-946 given useIndexCoords.  With a NaN coordinate the centre is
\* not needed: every outcome of the sort of line 867 ends in the throw.
placed(withCoords, useIndexCoords, X, Y, scoreDirection, xParams, yParams) ==
  CHOOSE m \in {centred(withCoords, useIndexCoords, X, Y, center, xParams, yParams) :
                  center \in {IF useIndexCoords
                                 \/ \E i \in DOMAIN withCoords :
                                       IsNaN(withCoords[i].xCoord) \/ IsNaN(withCoords[i].yCoord)
                              THEN [x |-> Half, y |-> Half]
                              ELSE centerOf(withCoords, scoreDirection)}} : TRUE

\* lines 823-946 given the ranges
ranged(filtered, ranges, useIndexCoords, cfg) ==
  CHOOSE m \in {placed(withCoords, useIndexCoords,
                        gridSide(Len(filtered)), gridSide(Len(filtered)),
                        cfg.scoreDirection, xParamsOf(cfg), yParamsOf(cfg)) :
                  withCoords \in {withCoordsOf(filtered, xParamsOf(cfg), yParamsOf(cfg),
                                               ranges, useIndexCoords)}} : TRUE

\* lines 814-946 given the filtered results
sized(filtered, ranges, cfg) ==
  IF Len(filtered) = 0 THEN NullResult
  ELSE ranged(filtered, ranges,
              useIndexCoordsOf(filtered, xParamsOf(cfg), yParamsOf(cfg), ranges), cfg)

filteredFrom(filtered, cfg) ==
  CHOOSE m \in {sized(filtered, ranges, cfg) :
                  ranges \in {computeRanges(filtered, xParamsOf(cfg) \o yParamsOf(cfg))}} : TRUE

\* buildHeatMap(items, config, zoomRanges).  Each const of the function is
\* bound once, as the one element of a set, and handed to the rest of the
\* function.
buildHeatMap(its, cfg, zr) ==
  IF Len(its) = 0 THEN NullResult
  ELSE CHOOSE m \in {filteredFrom(filtered, cfg) :
                       filtered \in {filteredOf(its, cfg, zr)}} : TRUE

\* A faulty variant of argumentsAfter: the results sorted by score in place
\* (the sort of line 862 without the copy, on an unfiltered list).
argumentsAfterSortedInPlace(its, cfg, zr) ==
  [items |-> StableSort(its, [i \in DOMAIN its |-> scoreKey(cfg.scoreDirection, its[i])]),
   config |-> cfg, zoomRanges |-> zr]

\* The arguments as buildHeatMap leaves them.  The filters (lines 792-813)
\* and the maps (836-856, 873-877) return new arrays of new objects
\* ({ ...it, xCoord, yCoord }), the sorts (862, 867-868) work on copies
\* ([...withCoords], top.map(...)), zoomRangesForCell is a new object
\* (916), and no statement assigns to items, to a result, to config or to
\* zoomRanges.
argumentsAfter(its, cfg, zr) ==
  [items |-> its, config |-> cfg, zoomRanges |-> zr]

\* cells[yi][xi] of a returned matrix m: a bucket that received no result
\* is the placeholder of lines 892-903
cellAt(m, yi, xi) ==
  IF <<yi, xi>> \in DOMAIN m.cells THEN m.cells[<<yi, xi>>]
  ELSE cellOf(<<>>, xi, yi, m.xKeys, m.yKeys)

\* scoreRange of HeatMapView (lines 1017-1028): minS starts at 1 and maxS
\* at 0, each cell with count > 0 contributes its avgScore, and min is
\* replaced by 0 when minS > maxS
scoreRange(m) ==
  LET avgs == {m.cells[g].avgScore : g \in {c \in DOMAIN m.cells : m.cells[c].count > 0}}
      minS == CHOOSE v \in avgs \cup {Num(1)} : \A w \in avgs \cup {Num(1)} : RLeq(v, w)
      maxS == CHOOSE v \in avgs \cup {Num(0)} : \A w \in avgs \cup {Num(0)} : RLeq(w, v)
  IN [min |-> IF RLess(maxS, minS) THEN Num(0) ELSE minS, max |-> maxS]

\* A faulty variant of isZoomable: every cell that holds a result.
isZoomableByCount(cell) == cell.count > 0

\* isZoomable(cell) of the view; also the guard of handleHeatMapCellClick
isZoomable(cell) == cell.count > 0 /\ cell.zoomRanges # Null /\ DOMAIN cell.zoomRanges # {}

----------------------------------------------------------------------------
(* Inputs *)

\* greatest number of results in a result set
MaxResults == 3

P1Vals == {0, 1}

P2Vals == {0, 1}

\* "none": the result carries no value for p3
P3Vals == {"0", "1", "none"}

P3Num(c) == IF c = "0" THEN 0 ELSE 1

\* params of a result: p1 and p2 always present, p3 possibly missing
paramsOf(a, b, c) ==
  IF c = "none" THEN [k \in {"p1", "p2"} |-> IF k = "p1" THEN a ELSE b]
  ELSE [k \in {"p1", "p2", "p3"} |-> IF k = "p1" THEN a ELSE IF k = "p2" THEN b ELSE P3Num(c)]

\* the score of a result grows with its parameter values
scoreOf(pm) == 1 + pm["p1"] + pm["p2"] + (IF "p3" \in DOMAIN pm THEN 2 * pm["p3"] ELSE 0)

ParamPool == {paramsOf(a, b, c) : a \in P1Vals, b \in P2Vals, c \in P3Vals}

\* an order on the pool: result sets are drawn as lists in this order
rank(pm) == pm["p1"] + 2 * pm["p2"]
            + 4 * (IF "p3" \in DOMAIN pm THEN pm["p3"] ELSE 2)

RECURSIVE ParamLists(_)
ParamLists(n) ==
  IF n = 0 THEN {<<>>}
  ELSE LET shorter == ParamLists(n - 1)
       IN shorter \cup
          {Append(s, pm) : s \in {t \in shorter : Len(t) = n - 1},
                           pm \in ParamPool}

Ordered(s) == \A i \in 1..(Len(s) - 1) : rank(s[i]) <= rank(s[i + 1])

\* the result sets: ids are the positions, unique
ItemLists ==
  {[i \in DOMAIN s |-> [id |-> i, params |-> s[i], score |-> scoreOf(s[i])]] :
     s \in {t \in ParamLists(MaxResults) : Ordered(t)}}

NoFixed == Null

Fixed(k, v) == [j \in {k} |-> v]

Fixed2(k1, v1, k2, v2) == [j \in {k1, k2} |-> IF j = k1 THEN v1 ELSE v2]

Zoom1(k, r) == [j \in {k} |-> r]

Zoom2(k1, r1, k2, r2) == [j \in {k1, k2} |-> IF j = k1 THEN r1 ELSE r2]

Setup(xa, ya, fixed, zr) ==
  [xAxis |-> xa, yAxis |-> ya, fixedParams |-> fixed, zoomRanges |-> zr]

\* The configs and zoom ranges handed to the engine.  p3 is a non-axis key
\* under xAxis = <<p1>> and an axis key under xAxis = <<p1, p3>>; the last
\* setup has empty axis lists, for which the engine falls back to the keys
\* "x" and "y".  An entry Null of zoomRanges is one whose min and max are null.
Setups ==
  {Setup(<<"p1">>, <<"p2">>, NoFixed, Null),
   Setup(<<"p1">>, <<"p2">>, Fixed2("p1", 1, "p3", 1), Null),
   Setup(<<"p1">>, <<"p2">>, NoFixed, Zoom1("p3", <<0, 0>>)),
   Setup(<<"p1">>, <<"p2">>, Fixed("p3", 1), Zoom2("p1", <<1, 2>>, "p3", <<0, 0>>)),
   Setup(<<"p1", "p3">>, <<"p2">>, NoFixed, Null),
   Setup(<<"p1", "p3">>, <<"p2">>, NoFixed, Zoom1("p3", <<0, 0>>)),
   Setup(<<"p1", "p3">>, <<"p2">>, NoFixed, Zoom2("p2", <<1, 1>>, "p3", Null)),
   Setup(<<>>, <<>>, NoFixed, Null)}

\* The results generateMockResults makes for the axis keys p1 and p2 on a
\* lattice of MockSide columns: result number i * MockSide + j has p1 = 1 + i
\* and p2 = 1 + j and a score that falls with the distance from the centre
\* of the lattice.  The random term of the score is left out; the first n
\* results are taken.
MockSide == 11

MaxMock == 101

mockScoreOn(side, i, j) ==
  LET d == (2 * i - (side - 1)) * (2 * i - (side - 1))
           + (2 * j - (side - 1)) * (2 * j - (side - 1))
  IN IF d < 2 * side * side THEN 2 * side * side - d ELSE 1

mockScore(i, j) == mockScoreOn(MockSide, i, j)

generateMockResults(n) ==
  [r \in 1..n |->
     [id |-> r,
      params |-> [k \in {"p1", "p2"} |->
                    IF k = "p1" THEN 1 + ((r - 1) \div MockSide)
                    ELSE 1 + ((r - 1) % MockSide)],
      score |-> mockScore((r - 1) \div MockSide, (r - 1) % MockSide)]]

\* greatest depth of the zoom stack
MaxZoomLevel == 2

\* MOCK_GRID_SIDE of the results handleGenerateHeatMap makes
AppSide == 3

\* generateMockResults(config, runId): side x side results; result number
\* i * side + j carries the fixed values, xAxis[0] = 1 + i and
\* yAxis[0] = 1 + j.  The random term of the score is left out.
generateMockResultsFor(cfg) ==
  LET xKey == IF xParamsOf(cfg) = <<>> THEN "x" ELSE xParamsOf(cfg)[1]
      yKey == IF yParamsOf(cfg) = <<>> THEN "y" ELSE yParamsOf(cfg)[1]
  IN [r \in 1..(AppSide * AppSide) |->
        [id |-> r - 1,
         params |-> [k \in DOMAIN cfg.fixedParams \cup {xKey, yKey} |->
                       IF k = yKey THEN 1 + ((r - 1) % AppSide)
                       ELSE IF k = xKey THEN 1 + ((r - 1) \div AppSide)
                       ELSE cfg.fixedParams[k]],
         score |-> mockScoreOn(AppSide, (r - 1) \div AppSide, (r - 1) % AppSide)]]

\* the indicators prop of the configurator, by id
Indicators == <<"i1", "i2">>

\* the composite keys `${ind.id}_${param.key}` of the parameters of an indicator
compositeKeys(id) == IF id = "i1" THEN <<"i1_p1", "i1_p2">> ELSE <<"i2_p1">>

\* param.default, which is also param.min
paramDefault(k) == IF k = "i1_p1" THEN 2 ELSE IF k = "i1_p2" THEN 3 ELSE 1

\* param.max: the parameters of i1 have one value, that of i2 has two
paramMax(k) == IF k = "i2_p1" THEN paramDefault(k) + 1 ELSE paramDefault(k)

\* getParamValues: param.min, param.min + step, ... up to param.max, step 1
getParamValues(k) == paramDefault(k)..paramMax(k)

\* the configurator is not mounted
Unmounted == [kind |-> "unmounted"]

NoClick == [kind |-> "none"]

NotBuilt == [kind |-> "none"]

----------------------------------------------------------------------------
(* State machine *)

\* heatMapId of a sub-run: `hyperopt-${row.id}-${sub.id}`
heatMapId(row, sub) == <<"hyperopt", row, sub>>

Init ==
  /\ items \in ItemLists
  /\ \E su \in Setups :
        /\ config = [xAxis |-> su.xAxis, yAxis |-> su.yAxis,
                     fixedParams |-> su.fixedParams, scoreDirection |-> "max"]
        /\ zoomRanges = su.zoomRanges
  /\ out = NotBuilt
  /\ pc = "ready"
  /\ clicked = NoClick
  /\ zoomStack = <<>>
  /\ runId = heatMapId(1, 1)
  /\ configurator = Unmounted
  /\ showHeatMapConfig = Null
  /\ alerted = FALSE
  /\ last = "init"

\* currentHeatMapData: the engine applied to the inputs, which it leaves as
\* argumentsAfter describes
Build ==
  /\ pc = "ready"
  /\ out' = buildHeatMap(items, config, zoomRanges)
  /\ items' = argumentsAfter(items, config, zoomRanges).items
  /\ config' = argumentsAfter(items, config, zoomRanges).config
  /\ zoomRanges' = argumentsAfter(items, config, zoomRanges).zoomRanges
  /\ pc' = "built"
  /\ last' = "Build"
  /\ UNCHANGED <<clicked, zoomStack, runId>>
  /\ UNCHANGED configVars

\* the label of a zoom level: `Zoom: cell (${cell.xi + 1}, ${cell.yi + 1}) n=${cell.count}`
labelOf(cell) == [xi |-> cell.xi + 1, yi |-> cell.yi + 1, n |-> cell.count]

\* [...prev.zoomStack, { label, zoomRanges: cell.zoomRanges }]
pushed(stack, cell) ==
  Append(stack, [label |-> labelOf(cell), zoomRanges |-> cell.zoomRanges])

\* A faulty variant of heatMapZoomRanges: the zoomRanges of the bottom entry.
heatMapZoomRangesBottom(stack) ==
  IF stack = <<>> THEN Null ELSE stack[1].zoomRanges

\* heatMapZoomRanges of a zoom stack: the zoomRanges of its top entry
heatMapZoomRanges(stack) ==
  IF stack = <<>> THEN Null ELSE stack[Len(stack)].zoomRanges

\* handleHeatMapCellClick on cell (yi, xi) of the displayed matrix: a cell
\* that is not zoomable returns the state as it is; otherwise an entry with
\* the cell's zoomRanges is pushed on the zoom stack, so that they become
\* heatMapZoomRanges and currentHeatMapData is rebuilt.  `clicked` records
\* the clicked cell and the state it was clicked in.  As in the
\* application, where the zoom stack starts empty, drilling starts from a
\* matrix built without zoom ranges.
CellClick(yi, xi) ==
  /\ pc = "built"
  /\ out.kind = "matrix"
  /\ zoomRanges = Null \/ zoomStack # <<>>
  /\ Len(zoomStack) < MaxZoomLevel
  /\ yi \in 0..(out.H - 1) /\ xi \in 0..(out.W - 1)
  /\ isZoomable(cellAt(out, yi, xi))
  /\ zoomStack' = pushed(zoomStack, cellAt(out, yi, xi))
  /\ out' = buildHeatMap(items, config,
                         heatMapZoomRanges(pushed(zoomStack, cellAt(out, yi, xi))))
  /\ items' = argumentsAfter(items, config,
                  heatMapZoomRanges(pushed(zoomStack, cellAt(out, yi, xi)))).items
  /\ config' = argumentsAfter(items, config,
                   heatMapZoomRanges(pushed(zoomStack, cellAt(out, yi, xi)))).config
  /\ zoomRanges' = argumentsAfter(items, config,
                       heatMapZoomRanges(pushed(zoomStack, cellAt(out, yi, xi)))).zoomRanges
  /\ clicked' = [kind |-> "cell", xi |-> xi, yi |-> yi,
                 count |-> cellAt(out, yi, xi).count,
                 N |-> out.N, zoomRanges |-> zoomRanges,
                 zoomStack |-> zoomStack, shown |-> out]
  /\ last' = "CellClick"
  /\ UNCHANGED <<pc, runId>>
  /\ UNCHANGED configVars

Next ==
  \/ Build
  \/ \E yi \in 0..(desiredMax - 1), xi \in 0..(desiredMax - 1) : CellClick(yi, xi)

Spec == Init /\ [][Next]_vars

\* The engine on mock results of 1..MaxMock results with axes p1 and p2,
\* unzoomed or zoomed to the corner box p1, p2 in 1..3 (at most 9 results).
InitMock ==
  /\ items \in {generateMockResults(n) : n \in 1..MaxMock}
  /\ config = [xAxis |-> <<"p1">>, yAxis |-> <<"p2">>,
               fixedParams |-> NoFixed, scoreDirection |-> "max"]
  /\ zoomRanges \in {Null, Zoom2("p1", <<1, 3>>, "p2", <<1, 3>>)}
  /\ out = NotBuilt
  /\ pc = "ready"
  /\ clicked = NoClick
  /\ zoomStack = <<>>
  /\ runId = heatMapId(1, 1)
  /\ configurator = Unmounted
  /\ showHeatMapConfig = Null
  /\ alerted = FALSE
  /\ last = "init"

SpecMock == InitMock /\ [][Next]_vars

\* Thirty results with p1 and p2 spread over 1..5: the 25 lattice points
\* and 5 of them a second time, shifted by a and b, the scores a
\* pseudo-random permutation of the numerators of k/31.
scenarioResults(a, b, mult) ==
  [r \in 1..30 |->
     [id |-> r,
      params |-> [k \in {"p1", "p2"} |->
                    IF k = "p1" THEN 1 + ((r - 1 + a) % 5)
                    ELSE 1 + ((((r - 1) \div 5) + b) % 5)],
      score |-> (r * mult) % 31]]

\* The engine on thirty unfiltered results with axes p1 and p2, for both
\* score directions.
InitScenarioA ==
  /\ items \in {scenarioResults(a, b, mult) : a \in 0..4, b \in 0..4, mult \in {3, 7, 11}}
  /\ \E dir \in {"max", "min"} :
        config = [xAxis |-> <<"p1">>, yAxis |-> <<"p2">>,
                  fixedParams |-> NoFixed, scoreDirection |-> dir]
  /\ zoomRanges = Null
  /\ out = NotBuilt
  /\ pc = "ready"
  /\ clicked = NoClick
  /\ zoomStack = <<>>
  /\ runId = heatMapId(1, 1)
  /\ configurator = Unmounted
  /\ showHeatMapConfig = Null
  /\ alerted = FALSE
  /\ last = "init"

SpecScenarioA == InitScenarioA /\ [][Next]_vars

----------------------------------------------------------------------------
(* The application: HeatMapConfigurator and the heat map handlers *)

\* selectedIndicators: the indicators whose id is selected, in the order of
\* the indicators prop
selectedIndicators(c) ==
  SelectSeq(Indicators, LAMBDA id : id \in Range(c.selectedIndicatorIds))

RECURSIVE paramsOfAll(_)
paramsOfAll(ids) ==
  IF ids = <<>> THEN <<>> ELSE compositeKeys(Head(ids)) \o paramsOfAll(Tail(ids))

\* availableParams, by composite key
availableParams(c) == paramsOfAll(selectedIndicators(c))

\* remainingParams: the available parameters on neither axis
remainingParams(c) ==
  SelectSeq(availableParams(c),
            LAMBDA k : k \notin Range(c.xAxisKeys) /\ k \notin Range(c.yAxisKeys))

\* remainingKeys: the sorted, joined keys, compared as a set
remainingKeys(c) == Range(remainingParams(c))

\* ({ ...next, ...prev })
spread(next, prev) ==
  [k \in DOMAIN next \cup DOMAIN prev |-> IF k \in DOMAIN prev THEN prev[k] ELSE next[k]]

\* the effect on remainingKeys (lines 3304-3310), run after a handler took
\* the configurator from `before` to `after`
fixedParamsEffect(before, after) ==
  IF remainingKeys(after) = remainingKeys(before) THEN after
  ELSE [after EXCEPT !.fixedParams =
          spread([k \in remainingKeys(after) |-> paramDefault(k)], after.fixedParams)]

\* the configurator as useState creates it
Created ==
  [kind |-> "mounted", selectedIndicatorIds |-> <<>>,
   xAxisKeys |-> <<>>, yAxisKeys |-> <<>>, fixedParams |-> Null]

\* the configurator after its mount effects: the first indicator selected
\* (lines 3297-3301) and its parameters fixed at their defaults
Mounted ==
  fixedParamsEffect(Created, [Created EXCEPT !.selectedIndicatorIds = <<Indicators[1]>>])

\* prev.includes(x) ? prev.filter(k => k !== x) : [...prev, x]
toggled(prev, x) ==
  IF x \in Range(prev) THEN SelectSeq(prev, LAMBDA k : k # x) ELSE Append(prev, x)

\* prev.filter(k => k !== x)
without(prev, x) == SelectSeq(prev, LAMBDA k : k # x)

\* the state in which no heat map is generated and no configurator shown
InitApp ==
  /\ items = <<>>
  /\ config = Null
  /\ zoomRanges = Null
  /\ out = NotBuilt
  /\ pc = "idle"
  /\ clicked = NoClick
  /\ zoomStack = <<>>
  /\ runId = Null
  /\ configurator = Unmounted
  /\ showHeatMapConfig = Null
  /\ alerted = FALSE
  /\ last = "init"

\* "Configure HeatMap" of the sub-run id (line 4736) mounts its
\* configurator, in place of the one of another sub-run if that is shown.
\* The configurator and the heat map share no state.
OpenConfig(id) ==
  /\ showHeatMapConfig # id
  /\ showHeatMapConfig' = id
  /\ configurator' = Mounted
  /\ alerted' = FALSE
  /\ last' = "OpenConfig"
  /\ UNCHANGED heatVars

\* "Hide" of the sub-run id (line 4736) unmounts the configurator
HideConfig(id) ==
  /\ showHeatMapConfig = id
  /\ showHeatMapConfig' = Null
  /\ configurator' = Unmounted
  /\ alerted' = FALSE
  /\ last' = "HideConfig"
  /\ UNCHANGED heatVars

toggleIndicator(id) ==
  /\ showHeatMapConfig # Null
  /\ configurator' =
       fixedParamsEffect(configurator,
         [configurator EXCEPT
            !.selectedIndicatorIds = toggled(configurator.selectedIndicatorIds, id),
            !.xAxisKeys = <<>>, !.yAxisKeys = <<>>, !.fixedParams = Null])
  /\ alerted' = FALSE
  /\ last' = "toggleIndicator"
  /\ UNCHANGED <<showHeatMapConfig>>
  /\ UNCHANGED heatVars

\* A faulty variant of toggleXAxis: the key is not taken off the Y axis.
toggleXAxisOnly(compositeKey) ==
  /\ showHeatMapConfig # Null
  /\ compositeKey \in Range(availableParams(configurator))
  /\ configurator' =
       fixedParamsEffect(configurator,
         [configurator EXCEPT
            !.xAxisKeys = toggled(configurator.xAxisKeys, compositeKey)])
  /\ alerted' = FALSE
  /\ last' = "toggleXAxis"
  /\ UNCHANGED <<showHeatMapConfig>>
  /\ UNCHANGED heatVars

\* toggleXAxis of a listed parameter.  The checkbox is disabled while the
\* key is on the Y axis; the handler is modelled for every listed key.
toggleXAxis(compositeKey) ==
  /\ showHeatMapConfig # Null
  /\ compositeKey \in Range(availableParams(configurator))
  /\ configurator' =
       fixedParamsEffect(configurator,
         [configurator EXCEPT
            !.xAxisKeys = toggled(configurator.xAxisKeys, compositeKey),
            !.yAxisKeys = without(configurator.yAxisKeys, compositeKey)])
  /\ alerted' = FALSE
  /\ last' = "toggleXAxis"
  /\ UNCHANGED <<showHeatMapConfig>>
  /\ UNCHANGED heatVars

toggleYAxis(compositeKey) ==
  /\ showHeatMapConfig # Null
  /\ compositeKey \in Range(availableParams(configurator))
  /\ configurator' =
       fixedParamsEffect(configurator,
         [configurator EXCEPT
            !.yAxisKeys = toggled(configurator.yAxisKeys, compositeKey),
            !.xAxisKeys = without(configurator.xAxisKeys, compositeKey)])
  /\ alerted' = FALSE
  /\ last' = "toggleYAxis"
  /\ UNCHANGED <<showHeatMapConfig>>
  /\ UNCHANGED heatVars

\* the select of a fixed parameter (lines 3491-3496)
setFixedParam(compositeKey, val) ==
  /\ showHeatMapConfig # Null
  /\ compositeKey \in remainingKeys(configurator)
  /\ val \in getParamValues(compositeKey)
  /\ configurator' =
       [configurator EXCEPT
          !.fixedParams = spread(configurator.fixedParams, [k \in {compositeKey} |-> val])]
  /\ alerted' = FALSE
  /\ last' = "setFixedParam"
  /\ UNCHANGED <<showHeatMapConfig>>
  /\ UNCHANGED heatVars

\* the config handleGenerate hands to onGenerate; it has no scoreDirection,
\* which line 789 reads as "max"
configOf(c) ==
  [xAxis |-> c.xAxisKeys, yAxis |-> c.yAxisKeys,
   fixedParams |-> c.fixedParams, scoreDirection |-> "max"]

\* the test of handleGenerate (line 3338)
incomplete(c) ==
  selectedIndicators(c) = <<>> \/ c.xAxisKeys = <<>> \/ c.yAxisKeys = <<>>

\* A faulty variant of handleGenerate: the test of line 3338 left out.
handleGenerateUnchecked ==
  /\ showHeatMapConfig # Null
  /\ items' = generateMockResultsFor(configOf(configurator))
  /\ config' = configOf(configurator)
  /\ zoomStack' = <<>>
  /\ runId' = showHeatMapConfig
  /\ zoomRanges' = Null
  /\ out' = buildHeatMap(generateMockResultsFor(configOf(configurator)),
                         configOf(configurator), Null)
  /\ pc' = "built"
  /\ clicked' = NoClick
  /\ showHeatMapConfig' = Null
  /\ configurator' = Unmounted
  /\ alerted' = FALSE
  /\ last' = "handleGenerate"

\* handleGenerate: an incomplete selection raises the alert and returns;
\* otherwise onGenerate(config) runs handleGenerateHeatMap(config, heatMapId)
\* with the heatMapId of the configurator shown, which stores the run id,
\* the mock results, the config and an empty zoom stack in place of the
\* heat map generated before, and hides the configurator;
\* currentHeatMapData is then built.
handleGenerate ==
  /\ showHeatMapConfig # Null
  /\ last' = "handleGenerate"
  /\ IF incomplete(configurator)
     THEN /\ alerted' = TRUE
          /\ UNCHANGED <<configurator, showHeatMapConfig>>
          /\ UNCHANGED heatVars
     ELSE /\ items' = generateMockResultsFor(configOf(configurator))
          /\ config' = configOf(configurator)
          /\ zoomStack' = <<>>
          /\ runId' = showHeatMapConfig
          /\ zoomRanges' = Null
          /\ out' = buildHeatMap(generateMockResultsFor(configOf(configurator)),
                                 configOf(configurator), Null)
          /\ pc' = "built"
          /\ clicked' = NoClick
          /\ showHeatMapConfig' = Null
          /\ configurator' = Unmounted
          /\ alerted' = FALSE

\* A faulty variant of handleHeatMapZoomOut: every level is removed.
handleHeatMapZoomOutAll(id) ==
  /\ pc = "built" /\ runId = id
  /\ last' = "handleHeatMapZoomOut"
  /\ zoomStack' = <<>>
  /\ zoomRanges' = Null
  /\ out' = buildHeatMap(items, config, Null)
  /\ clicked' = NoClick
  /\ UNCHANGED <<items, config, pc, runId>>
  /\ UNCHANGED configVars

\* handleHeatMapZoomOut(runId): with no heat map generated, with one of
\* another run id or with an empty zoom stack the state is returned as it
\* is; otherwise the top entry is removed and currentHeatMapData rebuilt
handleHeatMapZoomOut(id) ==
  /\ last' = "handleHeatMapZoomOut"
  /\ IF pc # "built" \/ runId # id \/ zoomStack = <<>>
     THEN UNCHANGED heatVars
     ELSE /\ zoomStack' = SubSeq(zoomStack, 1, Len(zoomStack) - 1)
          /\ zoomRanges' = heatMapZoomRanges(SubSeq(zoomStack, 1, Len(zoomStack) - 1))
          /\ out' = buildHeatMap(items, config,
                                 heatMapZoomRanges(SubSeq(zoomStack, 1, Len(zoomStack) - 1)))
          /\ clicked' = NoClick
          /\ UNCHANGED <<items, config, pc, runId>>
  /\ UNCHANGED configVars

\* A faulty variant of handleHeatMapResetZoom: one level is removed.
handleHeatMapResetZoomOne(id) ==
  /\ pc = "built" /\ runId = id
  /\ last' = "handleHeatMapResetZoom"
  /\ zoomStack' = SubSeq(zoomStack, 1, Len(zoomStack) - 1)
  /\ zoomRanges' = heatMapZoomRanges(SubSeq(zoomStack, 1, Len(zoomStack) - 1))
  /\ out' = buildHeatMap(items, config,
                         heatMapZoomRanges(SubSeq(zoomStack, 1, Len(zoomStack) - 1)))
  /\ clicked' = [kind |-> "reset", depth |-> Len(zoomStack)]
  /\ UNCHANGED <<items, config, pc, runId>>
  /\ UNCHANGED configVars

\* A faulty variant of handleHeatMapResetZoom: the run id is not compared.
handleHeatMapResetZoomAnyRun(id) ==
  /\ last' = "handleHeatMapResetZoom"
  /\ IF pc # "built"
     THEN UNCHANGED heatVars
     ELSE /\ zoomStack' = <<>>
          /\ zoomRanges' = Null
          /\ out' = buildHeatMap(items, config, Null)
          /\ clicked' = [kind |-> "reset", depth |-> Len(zoomStack)]
          /\ UNCHANGED <<items, config, pc, runId>>
  /\ UNCHANGED configVars

\* handleHeatMapResetZoom(runId): with no heat map generated or with one
\* of another run id the state is returned as it is; otherwise the zoom
\* stack is emptied and currentHeatMapData rebuilt; clicked records the
\* depth the reset was made at
handleHeatMapResetZoom(id) ==
  /\ last' = "handleHeatMapResetZoom"
  /\ IF pc # "built" \/ runId # id
     THEN UNCHANGED heatVars
     ELSE /\ zoomStack' = <<>>
          /\ zoomRanges' = Null
          /\ out' = buildHeatMap(items, config, Null)
          /\ clicked' = [kind |-> "reset", depth |-> Len(zoomStack)]
          /\ UNCHANGED <<items, config, pc, runId>>
  /\ UNCHANGED configVars

\* handleHeatMapCellClick(cell, runId) on cell (yi, xi): with no heat map
\* generated or with one of another run id the state is returned as it
\* is; otherwise the click is the CellClick on the displayed matrix
handleHeatMapCellClick(yi, xi, id) ==
  IF pc # "built" \/ runId # id
  THEN /\ last' = "handleHeatMapCellClick"
       /\ UNCHANGED heatVars
       /\ UNCHANGED configVars
  ELSE CellClick(yi, xi)

\* "Clear HeatMap" (line 4776): setGeneratedHeatMap(null)
ClearHeatMap ==
  /\ pc = "built"
  /\ items' = <<>>
  /\ config' = Null
  /\ zoomStack' = <<>>
  /\ runId' = Null
  /\ zoomRanges' = Null
  /\ out' = NotBuilt
  /\ pc' = "idle"
  /\ clicked' = NoClick
  /\ last' = "ClearHeatMap"
  /\ UNCHANGED configVars

AllCompositeKeys == Range(paramsOfAll(Indicators))

\* The application with one sub-run: its configurator is opened while no
\* heat map is displayed, and the displayed heat map passes its own run id.
NextApp ==
  \/ pc = "idle" /\ OpenConfig(heatMapId(1, 1))
  \/ HideConfig(heatMapId(1, 1))
  \/ \E id \in Range(Indicators) : toggleIndicator(id)
  \/ \E k \in AllCompositeKeys : toggleXAxis(k)
  \/ \E k \in AllCompositeKeys : toggleYAxis(k)
  \/ \E k \in AllCompositeKeys : \E v \in getParamValues(k) : setFixedParam(k, v)
  \/ handleGenerate
  \/ \E yi \in 0..(desiredMax - 1), xi \in 0..(desiredMax - 1) : CellClick(yi, xi)
  \/ pc = "built" /\ handleHeatMapZoomOut(runId)
  \/ pc = "built" /\ handleHeatMapResetZoom(runId)
  \/ ClearHeatMap

SpecApp == InitApp /\ [][NextApp]_vars

\* the rows and columns of the cells the HeatMapView of sub-run id offers
\* for a click (line 4772: the view is there for the generated run id
\* only); a click for a sub-run whose matrix is not displayed carries a
\* cell of a view that is gone, for which cell (0, 0) stands
rowsShown(id) ==
  IF pc = "built" /\ runId = id /\ out.kind = "matrix" THEN 0..(out.H - 1) ELSE {0}

colsShown(id) ==
  IF pc = "built" /\ runId = id /\ out.kind = "matrix" THEN 0..(out.W - 1) ELSE {0}

\* the sub-runs of the table
RunIds == {heatMapId(1, 1), heatMapId(1, 2)}

\* The application with two sub-runs: either configurator is opened at any
\* time, the first parameter of the first indicator is put on the X axis,
\* then the second on the Y axis, the completed selection is generated,
\* and the heat map handlers are called with either run id at any time.
NextRuns ==
  \/ \E id \in RunIds : OpenConfig(id)
  \/ /\ showHeatMapConfig # Null /\ configurator.xAxisKeys = <<>>
     /\ toggleXAxis(compositeKeys(Indicators[1])[1])
  \/ /\ showHeatMapConfig # Null /\ configurator.xAxisKeys # <<>>
     /\ configurator.yAxisKeys = <<>>
     /\ toggleYAxis(compositeKeys(Indicators[1])[2])
  \/ /\ showHeatMapConfig # Null /\ ~incomplete(configurator)
     /\ handleGenerate
  \/ \E id \in RunIds : \E yi \in rowsShown(id), xi \in colsShown(id) :
        handleHeatMapCellClick(yi, xi, id)
  \/ \E id \in RunIds : handleHeatMapZoomOut(id)
  \/ \E id \in RunIds : handleHeatMapResetZoom(id)

SpecRuns == InitApp /\ [][NextRuns]_vars

----------------------------------------------------------------------------
(* Properties *)

\* out is the value buildHeatMap returned for (items, config, zoomRanges)
Built == pc = "built"

IsMatrix == pc = "built" /\ out.kind = "matrix"

\* the positions <<yi, xi>> of the H x W grid of a matrix
Grid(m) == (0..(m.H - 1)) \X (0..(m.W - 1))

\* the sum of count over the first n cells of row yi
RECURSIVE RowCountUpTo(_, _, _)
RowCountUpTo(m, yi, n) ==
  IF n = 0 THEN 0
  ELSE cellAt(m, yi, n - 1).count + RowCountUpTo(m, yi, n - 1)

\* the sum of count over the cells of the first n rows
RECURSIVE CountUpTo(_, _)
CountUpTo(m, n) ==
  IF n = 0 THEN 0
  ELSE RowCountUpTo(m, n - 1, m.W) + CountUpTo(m, n - 1)

\* the ids of the results in a cell's results list
IdsOfCell(c) == {c.results[j].id : j \in DOMAIN c.results}

\* The positions of the grid whose cell holds a result.  A position that
\* is not a key of m.cells is the empty placeholder (cellAt), so only the
\* keys of m.cells that lie in the grid are looked at.
Filled(m) == {g \in DOMAIN m.cells : g \in Grid(m)}

\* the ids of the results held by the cells of the grid
IdsIn(m) == UNION {IdsOfCell(m.cells[g]) : g \in Filled(m)}

\* the results of the cells of the grid, with their coordinates
ResultsIn(m) == UNION {{m.cells[g].results[j] : j \in DOMAIN m.cells[g].results} : g \in Filled(m)}

\* the ids of the results that pass the filters of the engine for the
\* current inputs
SurvivorIds ==
  {filteredOf(items, config, zoomRanges)[i].id :
     i \in DOMAIN filteredOf(items, config, zoomRanges)}

\* C1: in every returned matrix the counts of all cells of the grid add up
\* to N, and every result that passes the filters is in the results list of
\* exactly one cell, once.
C1_CountConservation ==
  IsMatrix =>
    /\ CountUpTo(out, out.H) = out.N
    /\ \A id \in SurvivorIds :
          Cardinality({g \in Filled(out) : id \in IdsOfCell(out.cells[g])}) = 1
    /\ \A g \in Filled(out) :
          /\ out.cells[g].count = Len(out.cells[g].results)
          /\ Cardinality(IdsOfCell(out.cells[g])) = Len(out.cells[g].results)

\* a matrix of three results, two of them sharing a cell
C1_Witness ==
  /\ IsMatrix
  /\ out.N = 3
  /\ \E g, h \in Filled(out) :
        g # h /\ out.cells[g].count = 2 /\ out.cells[h].count = 1

\* the axis keys of a config as the spec names them
AxisKeys(cfg) == Range(cfg.xAxis) \cup Range(cfg.yAxis)

\* Step 1a of the spec: the result matches every fixed key that is no axis key
MatchesFixed(it, cfg) ==
  \A k \in DOMAIN cfg.fixedParams \ AxisKeys(cfg) :
     k \in DOMAIN it.params /\ it.params[k] = cfg.fixedParams[k]

\* Step 1b of the spec: for every axis key with an entry (one that gives min
\* and max) the result has a value inside [min, max]
InsideZoom(it, cfg, zr) ==
  \A k \in AxisKeys(cfg) \cap DOMAIN zr :
     zr[k] # Null =>
        /\ k \in DOMAIN it.params
        /\ zr[k][1] <= it.params[k]
        /\ it.params[k] <= zr[k][2]

\* the ids of the results that survive the filtering the spec describes
SpecSurvivorIds ==
  {items[i].id : i \in {j \in DOMAIN items :
                          MatchesFixed(items[j], config) /\ InsideZoom(items[j], config, zoomRanges)}}

\* C2: buildHeatMap returns null exactly when no result survives the
\* filters, and with N >= 1 survivors it returns a matrix with that N.
C2_NullIffNoSurvivor ==
  Built =>
    /\ (out = NullResult) <=> (SpecSurvivorIds = {})
    /\ SpecSurvivorIds # {} =>
          out.kind = "matrix" /\ out.N = Cardinality(SpecSurvivorIds)

\* C3: the returned W and H are equal and lie in 9..13.
C3_GridBounds ==
  IsMatrix => out.W = out.H /\ 9 <= out.W /\ out.W <= 13

\* a matrix of the greatest side has been returned
C3_Witness == IsMatrix /\ out.N >= 36 /\ out.W = 13 /\ out.H = 13

\* C4: a cell of the grid with count 0 has null avgScore, minScore, maxScore
\* and zoomRanges and no results; a cell with count >= 1 has non-null
\* avgScore, minScore and maxScore.
C4_EmptyCellShape ==
  IsMatrix =>
    \A g \in Grid(out) :
       \A c \in {cellAt(out, g[1], g[2])} :
          /\ c.count >= 0
          /\ c.count = 0 =>
                /\ c.avgScore = Null /\ c.minScore = Null /\ c.maxScore = Null
                /\ c.zoomRanges = Null
                /\ c.results = <<>>
          /\ c.count >= 1 =>
                c.avgScore # Null /\ c.minScore # Null /\ c.maxScore # Null

\* a matrix with an empty cell next to a cell holding two results
C4_Witness ==
  /\ IsMatrix
  /\ \E g \in Filled(out) :
        /\ out.cells[g].count = 2
        /\ g[2] + 1 < out.W
        /\ cellAt(out, g[1], g[2] + 1).count = 0

\* the ids of the results of the returned matrix; none when null is returned
MatrixIds == IF out.kind = "matrix" THEN IdsIn(out) ELSE {}

\* every result carries a value for every axis key
AllAxisValuesPresent ==
  \A i \in DOMAIN items : AxisKeys(config) \subseteq DOMAIN items[i].params

\* C5: after a click on a cell of the matrix built without zoom ranges, the
\* matrix built with that cell's zoomRanges has N equal to the cell's count.
\* Stated for result sets whose results carry every axis key.
C5_DrillDownConsistency ==
  (Built /\ clicked.kind = "cell" /\ clicked.zoomRanges = Null /\ AllAxisValuesPresent)
     => (out.kind = "matrix" /\ out.N = clicked.count)

\* the values of key k present among the results of a cell
CellValues(c, k) ==
  {c.results[j].params[k] : j \in {i \in DOMAIN c.results : k \in DOMAIN c.results[i].params}}

NonAxisFixed(cfg) ==
  [xAxis |-> cfg.xAxis, yAxis |-> cfg.yAxis,
   fixedParams |-> [k \in DOMAIN cfg.fixedParams \ AxisKeys(cfg) |-> cfg.fixedParams[k]],
   scoreDirection |-> cfg.scoreDirection]

\* C7: the results of the matrix are those that match every fixed key that
\* is no axis key (a result without the key does not match) and pass the
\* zoom filter; N is their number, and entries of fixedParams for axis keys
\* change nothing.
C7_FixedParams ==
  (Built /\ out.kind # "error") =>
    /\ MatrixIds =
         {items[i].id : i \in {j \in DOMAIN items :
              /\ MatchesFixed(items[j], config)
              /\ zoomRanges = Null \/ passesZoom(items[j], config, zoomRanges)}}
    /\ out.kind = "matrix" => out.N = Cardinality(MatrixIds)
    /\ (DOMAIN config.fixedParams \cap AxisKeys(config) # {}) =>
          out = buildHeatMap(items, NonAxisFixed(config), zoomRanges)

\* fixedParams names an axis key and a non-axis key; a result that differs
\* on the axis key is in the matrix, one that differs on the other key and
\* one without it are not
C7_Witness ==
  /\ IsMatrix
  /\ \E ka \in DOMAIN config.fixedParams \cap AxisKeys(config),
        kn \in DOMAIN config.fixedParams \ AxisKeys(config) :
        /\ \E i \in DOMAIN items :
              /\ items[i].id \in MatrixIds
              /\ items[i].params[ka] # config.fixedParams[ka]
        /\ \E i \in DOMAIN items :
              /\ items[i].id \notin MatrixIds
              /\ kn \notin DOMAIN items[i].params
        /\ \E i \in DOMAIN items :
              /\ items[i].id \notin MatrixIds
              /\ kn \in DOMAIN items[i].params
              /\ items[i].params[kn] # config.fixedParams[kn]

\* C8: with zoom ranges, every result of the matrix has, for every axis key
\* with an entry, a value inside [min, max]; the bounds are inclusive, so
\* the results of the matrix are exactly the results passing the fixedParams
\* filter whose values lie inside the ranges.
C8_ZoomFilter ==
  (Built /\ out.kind # "error" /\ zoomRanges # Null) =>
    /\ \A r \in (IF out.kind = "matrix" THEN ResultsIn(out) ELSE {}) :
          InsideZoom(r, config, zoomRanges)
    /\ MatrixIds =
         {items[i].id : i \in {j \in DOMAIN items :
              passesFixed(items[j], config) /\ InsideZoom(items[j], config, zoomRanges)}}

\* a matrix built with a range min < max for an axis key that holds a result
\* at min and one at max, while another result was filtered out
C8_Witness ==
  /\ IsMatrix
  /\ zoomRanges # Null
  /\ \E k \in AxisKeys(config) \cap DOMAIN zoomRanges :
        /\ zoomRanges[k] # Null
        /\ zoomRanges[k][1] < zoomRanges[k][2]
        /\ \E r1, r2 \in ResultsIn(out) :
              r1.params[k] = zoomRanges[k][1] /\ r2.params[k] = zoomRanges[k][2]
  /\ \E i \in DOMAIN items : items[i].id \notin MatrixIds

\* zoomRanges without the entries of keys that are no axis keys
AxisOnly(zr, cfg) == [k \in DOMAIN zr \cap AxisKeys(cfg) |-> zr[k]]

\* C9: entries of zoomRanges for keys that are no axis keys have no effect:
\* the outcome is that of the call with these entries removed.
C9_NonAxisZoomIgnored ==
  (Built /\ ~(DOMAIN zoomRanges \subseteq AxisKeys(config))) =>
     out = buildHeatMap(items, config, AxisOnly(zoomRanges, config))

\* a matrix built with a range for a non-axis key holds a result whose value
\* lies outside that range and one that has no value for the key
C9_Witness ==
  /\ IsMatrix
  /\ \E k \in DOMAIN zoomRanges \ AxisKeys(config) :
        /\ zoomRanges[k] # Null
        /\ \E r \in ResultsIn(out) :
              k \in DOMAIN r.params /\ r.params[k] > zoomRanges[k][2]
        /\ \E r \in ResultsIn(out) : k \notin DOMAIN r.params

\* the contribution of key k to a coordinate as the spec gives it: 1/2 when
\* the range is degenerate or the value is missing
SpecNormalize(it, k, r) ==
  IF r = Null \/ r[1] = r[2] \/ k \notin DOMAIN it.params THEN Half
  ELSE clamp01(Rat(it.params[k] - r[1], r[2] - r[1]))

SpecCoord(it, keys, ranges) ==
  RDivInt(SumSeq([i \in DOMAIN keys |-> SpecNormalize(it, keys[i], ranges[keys[i]])]),
          Len(keys))

\* the filtered results are placed by parameter coordinates
OnParamPath ==
  /\ Len(filteredOf(items, config, zoomRanges)) > 0
  /\ ~useIndexCoordsOf(filteredOf(items, config, zoomRanges),
                       xParamsOf(config), yParamsOf(config),
                       computeRanges(filteredOf(items, config, zoomRanges),
                                     xParamsOf(config) \o yParamsOf(config)))

\* C10: on the parameter-coordinate path buildHeatMap returns a matrix, and
\* a result without a value for an axis key contributes 1/2 for that key to
\* its coordinate.
C10_MissingValueFallback ==
  (Built /\ OnParamPath) =>
    /\ out.kind = "matrix"
    /\ \A r \in ResultsIn(out) :
          LET ranges == computeRanges(filteredOf(items, config, zoomRanges),
                                      xParamsOf(config) \o yParamsOf(config))
          IN /\ r.xCoord = SpecCoord(r, out.xKeys, ranges)
             /\ r.yCoord = SpecCoord(r, out.yKeys, ranges)

\* the survivors of the spec's filtering, in the order of the result list
SpecSurvivors == {i \in DOMAIN items : items[i].id \in SpecSurvivorIds}

\* every axis key takes at most one value among the survivors
AxisValuesSingle ==
  \A k \in AxisKeys(config) :
     Cardinality({items[i].params[k] : i \in {j \in SpecSurvivors : k \in DOMAIN items[j].params}}) <= 1

\* the least c with c * c >= n, and the rows needed for n results in c columns
SpecCols(n) == CHOOSE c \in 1..n : c * c >= n /\ (c - 1) * (c - 1) < n

SpecRows(n) == CHOOSE r \in 1..n : r * SpecCols(n) >= n /\ (r - 1) * SpecCols(n) < n

\* the 0-based position of a result of the matrix among the survivors
PositionOf(r) == Cardinality({id \in MatrixIds : id < r.id})

\* the index coordinates step 3 of the spec gives the result at position i of n
SpecIndexX(i, n) ==
  IF SpecCols(n) > 1 THEN Rat(i % SpecCols(n), SpecCols(n) - 1) ELSE Half

SpecIndexY(i, n) ==
  IF SpecRows(n) > 1 THEN Rat(i \div SpecCols(n), SpecRows(n) - 1) ELSE Half

\* C11 as stated: when every axis key takes a single value among the
\* survivors, a matrix is returned in which every result has X and Y
\* coordinate 1/2.
C11_AllCoordinatesHalf ==
  (Built /\ SpecSurvivorIds # {} /\ AxisValuesSingle) =>
    /\ out.kind = "matrix"
    /\ \A r \in ResultsIn(out) : r.xCoord = Half /\ r.yCoord = Half

\* C11 amended: when every axis key takes a single value among the
\* survivors, a matrix with all N survivors is returned, its centre is
\* (1/2, 1/2), and the results are laid out by index: the result at
\* position i has X = col / (cols - 1) and Y = row / (rows - 1), 1/2 where
\* there is one column or one row; so all coordinates are 1/2 only if N = 1.
C11_DegenerateRangeSafety ==
  (Built /\ SpecSurvivorIds # {} /\ AxisValuesSingle) =>
    /\ out.kind = "matrix"
    /\ out.N = Cardinality(SpecSurvivorIds)
    /\ out.centerX = Half /\ out.centerY = Half
    /\ \A r \in ResultsIn(out) :
          /\ r.xCoord = SpecIndexX(PositionOf(r), out.N)
          /\ r.yCoord = SpecIndexY(PositionOf(r), out.N)
          /\ r.xCentered = r.xCoord /\ r.yCentered = r.yCoord
    /\ (\A r \in ResultsIn(out) : r.xCoord = Half /\ r.yCoord = Half) <=> out.N = 1

\* three results that agree on every axis key are spread over three cells
C11_Witness ==
  /\ IsMatrix
  /\ AxisValuesSingle
  /\ out.N = 3
  /\ Cardinality(Filled(out)) = 3
  /\ \E r \in ResultsIn(out) : r.xCoord # Half

\* the values of key k among the results of a matrix
MatrixValues(m, k) ==
  {r.params[k] : r \in {q \in ResultsIn(m) : k \in DOMAIN q.params}}

\* {min, max} of every axis key over the results of a matrix
SpecRanges(m) ==
  [k \in Range(m.xKeys) \cup Range(m.yKeys) |->
     IF MatrixValues(m, k) = {} THEN Null
     ELSE <<SetMin(MatrixValues(m, k)), SetMax(MatrixValues(m, k))>>]

\* some key of the axis group has max > min over the results of the matrix
SpecAxisValid(keys, ranges) ==
  \E i \in DOMAIN keys : ranges[keys[i]] # Null /\ ranges[keys[i]][2] > ranges[keys[i]][1]

\* the condition of step 3 of the spec for index coordinates
SpecIndexCondition(m, ranges) ==
  \/ ~SpecAxisValid(m.xKeys, ranges)
  \/ ~SpecAxisValid(m.yKeys, ranges)
  \/ m.N >= 100

\* the results of the matrix are laid out by index, without centering
IndexPlaced(m) ==
  /\ m.centerX = Half /\ m.centerY = Half
  /\ \A r \in ResultsIn(m) :
        /\ r.xCoord = SpecIndexX(PositionOf(r), m.N)
        /\ r.yCoord = SpecIndexY(PositionOf(r), m.N)
        /\ r.xCentered = r.xCoord /\ r.yCentered = r.yCoord

\* the results of the matrix are placed by their parameter values and
\* shifted by the centre
ParamPlaced(m, ranges) ==
  \A r \in ResultsIn(m) :
     /\ r.xCoord = SpecCoord(r, m.xKeys, ranges)
     /\ r.yCoord = SpecCoord(r, m.yKeys, ranges)
     /\ r.xCentered = clamp01(RAdd(RSub(r.xCoord, m.centerX), Half))
     /\ r.yCentered = clamp01(RAdd(RSub(r.yCoord, m.centerY), Half))

\* C12: index coordinates without centering, with centerX = centerY = 1/2,
\* are used when the X axis group or the Y axis group has no key with
\* max > min over the filtered results or N >= 100; otherwise parameter
\* coordinates with centering are used.
C12_IndexCoordinatesExactlyWhen ==
  IsMatrix =>
    IF SpecIndexCondition(out, SpecRanges(out))
    THEN IndexPlaced(out)
    ELSE ParamPlaced(out, SpecRanges(out)) /\ ~IndexPlaced(out)

\* 100 results whose axis ranges are both non-degenerate are laid out by
\* index, not by their parameter values
C12_Witness ==
  /\ IsMatrix
  /\ out.N = 100
  /\ SpecAxisValid(out.xKeys, SpecRanges(out))
  /\ SpecAxisValid(out.yKeys, SpecRanges(out))
  /\ IndexPlaced(out)
  /\ ~ParamPlaced(out, SpecRanges(out))

SpecDrillable(yi, xi) ==
  /\ cellAt(out, yi, xi).count >= 1
  /\ cellAt(out, yi, xi).zoomRanges # Null
  /\ DOMAIN cellAt(out, yi, xi).zoomRanges # {}

\* the step appends one entry carrying the zoomRanges of the cell at
\* <<yi, xi>> and leaves the earlier entries, the results and the config
SpecDrillIn(yi, xi) ==
  /\ Len(zoomStack') = Len(zoomStack) + 1
  /\ SubSeq(zoomStack', 1, Len(zoomStack)) = zoomStack
  /\ zoomStack'[Len(zoomStack')].zoomRanges = cellAt(out, yi, xi).zoomRanges
  /\ zoomStack'[Len(zoomStack')].label =
       [xi |-> xi + 1, yi |-> yi + 1, n |-> cellAt(out, yi, xi).count]
  /\ items' = items
  /\ config' = config

\* C14: every step on a displayed matrix that changes the heat map state
\* is a click on a cell with count >= 1 and non-null, non-empty zoomRanges,
\* and it appends exactly one entry with that cell's zoomRanges, leaving
\* the earlier entries, the results and the config; no step changes the
\* state through an empty cell or a cell with null zoomRanges.
C14_DrillInStep ==
  [][(IsMatrix /\ <<items, config, zoomStack, out>>' # <<items, config, zoomStack, out>>) =>
       /\ clicked'.kind = "cell"
       /\ SpecDrillable(clicked'.yi, clicked'.xi)
       /\ SpecDrillIn(clicked'.yi, clicked'.xi)]_vars

\* a second drill-in was made from a matrix that also has empty cells
C14_Witness ==
  /\ IsMatrix
  /\ last = "CellClick"
  /\ Len(zoomStack) = 2
  /\ zoomStack[2].zoomRanges =
       cellAt(clicked.shown, clicked.yi, clicked.xi).zoomRanges
  /\ zoomStack[1] = clicked.zoomStack[1]
  /\ \E pos \in Grid(clicked.shown) : cellAt(clicked.shown, pos[1], pos[2]).count = 0

\* the zoom ranges of the entry below the top of the zoom stack, null when
\* the top is the only entry
SpecBelowTop ==
  IF Len(zoomStack) = 1 THEN Null ELSE zoomStack[Len(zoomStack) - 1].zoomRanges

\* C15: zoom out on a non-empty zoom stack removes exactly the top entry and
\* displays the matrix built from the new top entry's ranges (null when the
\* stack becomes empty); right after a drill-in it restores the zoom stack
\* and the matrix displayed before the drill-in; on an empty stack it
\* changes nothing of the heat map state.
C15_ZoomOut ==
  [][last' = "handleHeatMapZoomOut" =>
       IF zoomStack = <<>>
       THEN <<items, config, zoomStack, zoomRanges, out>>' =
               <<items, config, zoomStack, zoomRanges, out>>
       ELSE /\ Len(zoomStack') = Len(zoomStack) - 1
            /\ \A i \in 1..Len(zoomStack') : zoomStack'[i] = zoomStack[i]
            /\ items' = items
            /\ config' = config
            /\ out' = buildHeatMap(items, config, SpecBelowTop)
            /\ last = "CellClick" =>
                 zoomStack' = clicked.zoomStack /\ out' = clicked.shown]_vars

\* a zoom out from the second level to the first
C15_Witness ==
  /\ IsMatrix
  /\ last = "handleHeatMapZoomOut"
  /\ Len(zoomStack) = 1
  /\ out = buildHeatMap(items, config, zoomStack[1].zoomRanges)
  /\ out # buildHeatMap(items, config, Null)

\* C16: reset empties the zoom stack, leaves the results and the config,
\* and displays buildHeatMap(fullResults, config, null), which is also the
\* matrix displayed right after generation.
C16_Reset ==
  [][/\ last' = "handleHeatMapResetZoom" =>
          /\ zoomStack' = <<>>
          /\ items' = items
          /\ config' = config
          /\ out' = buildHeatMap(items, config, Null)
     /\ (last' = "handleGenerate" /\ pc' = "built") =>
          /\ zoomStack' = <<>>
          /\ out' = buildHeatMap(items', config', Null)]_vars

\* a reset made two levels deep
C16_Witness ==
  /\ IsMatrix
  /\ last = "handleHeatMapResetZoom"
  /\ clicked.kind = "reset"
  /\ clicked.depth = 2
  /\ zoomStack = <<>>
  /\ out.N = Len(items)

\* the merge of the zoomRanges of all entries of a zoom stack, a later
\* entry overriding the earlier ones per key
RECURSIVE SpecMerged(_)
SpecMerged(stack) ==
  IF stack = <<>> THEN Null
  ELSE spread(SpecMerged(SubSeq(stack, 1, Len(stack) - 1)),
              stack[Len(stack)].zoomRanges)

\* C17: for a zoom stack reached by drill-ins from the full result set, the
\* engine invoked with the top entry's zoomRanges alone keeps the same
\* results and returns the same matrix as the engine invoked with the merge
\* of all entries.
C17_TopOfStackEquivalence ==
  (Built /\ zoomStack # <<>>) =>
     /\ zoomRanges = zoomStack[Len(zoomStack)].zoomRanges
     /\ filteredOf(items, config, SpecMerged(zoomStack)) =
          filteredOf(items, config, zoomRanges)
     /\ buildHeatMap(items, config, SpecMerged(zoomStack)) = out

\* two levels deep, the second entry narrower than the first, and the first
\* entry alone keeps a result the second excludes
C17_Witness ==
  /\ IsMatrix
  /\ Len(zoomStack) = 2
  /\ zoomStack[1].zoomRanges # zoomStack[2].zoomRanges
  /\ Len(filteredOf(items, config, zoomStack[1].zoomRanges)) > out.N
  /\ out.N < Len(items)

\* the matrix built from the thirty results, before any drill-in
ScenarioBuilt == Built /\ zoomStack = <<>> /\ Len(items) = 30

\* C18 as stated: the matrix of the thirty results is non-null with N = 30,
\* the cell counts sum to 30, and the grid side is closer to 9 than to 13.
C18_SideNearLowerBound ==
  ScenarioBuilt =>
    /\ out.kind = "matrix"
    /\ out.N = 30
    /\ CountUpTo(out, out.H) = 30
    /\ out.W - 9 < 13 - out.W

\* C18: the matrix of the thirty results is non-null with N = 30, the cell
\* counts sum to 30, and the grid side is 13, the upper bound:
\* round(sqrt(30) / 6 * 4 + 9) = round(12.65).
C18_ScenarioA ==
  ScenarioBuilt =>
    /\ out.kind = "matrix"
    /\ out.N = 30
    /\ CountUpTo(out, out.H) = 30
    /\ out.W = 13
    /\ out.H = 13

\* the thirty results are displayed, two of them sharing a cell
C18_Witness ==
  /\ ScenarioBuilt
  /\ IsMatrix
  /\ \A i \in DOMAIN items :
        items[i].params["p1"] \in 1..5 /\ items[i].params["p2"] \in 1..5
  /\ \E g \in Filled(out) : out.cells[g].count = 2

\* C19: while the configurator is shown no key is in both its X-axis list
\* and its Y-axis list, and the config of every generated heat map has
\* disjoint xAxis and yAxis.
C19_AxisDisjointness ==
  /\ configurator.kind = "mounted" =>
       Range(configurator.xAxisKeys) \cap Range(configurator.yAxisKeys) = {}
  /\ Built => Range(config.xAxis) \cap Range(config.yAxis) = {}

\* a heat map generated from a config with every parameter of both
\* indicators on an axis
C19_Witness ==
  /\ IsMatrix
  /\ last = "handleGenerate"
  /\ config.xAxis # <<>>
  /\ config.yAxis # <<>>
  /\ Range(config.xAxis) \cup Range(config.yAxis) = AllCompositeKeys

\* the selection of the configurator has an empty axis list, or a key on
\* both axes
SpecInvalid ==
  \/ configurator.xAxisKeys = <<>>
  \/ configurator.yAxisKeys = <<>>
  \/ Range(configurator.xAxisKeys) \cap Range(configurator.yAxisKeys) # {}

C21_RendererScale ==
  IsMatrix =>
    /\ scoreRange(out).max = out.scoreMax
    /\ RLeq(out.scoreMin, Num(1)) => scoreRange(out).min = out.scoreMin

\* result q comes before result r in the order by score: the better score
\* first, the earlier result first among equal scores
SpecBefore(dir, q, r) ==
  \/ IF dir = "min" THEN q.score < r.score ELSE q.score > r.score
  \/ q.score = r.score /\ q.id < r.id

\* k = max(10, min(count, floor(count * 0.06)))
SpecTopCount(n) ==
  LET pct == (6 * n) \div 100
      low == IF n < pct THEN n ELSE pct
  IN IF low > 10 THEN low ELSE 10

\* the top k results of a matrix, all of them when k exceeds their number
SpecTop(m, dir) ==
  {r \in ResultsIn(m) :
     Cardinality({q \in ResultsIn(m) : SpecBefore(dir, q, r)}) < SpecTopCount(m.N)}

\* the p-th smallest (1-based) of the values cs[r], r in T, with repetitions
SpecNth(T, cs, p) ==
  CHOOSE v \in {cs[r] : r \in T} :
     /\ Cardinality({r \in T : RLess(cs[r], v)}) < p
     /\ Cardinality({r \in T : RLeq(cs[r], v)}) >= p

\* the linearly interpolated median of the values cs[r], r in T
SpecMedian(T, cs) ==
  RDivInt(RAdd(SpecNth(T, cs, (Cardinality(T) + 1) \div 2),
               SpecNth(T, cs, (Cardinality(T) + 2) \div 2)), 2)

\* C22: when centering is applied (parameter coordinates), centerX and
\* centerY are the medians of the xCoord and yCoord of the top k results by
\* score, highest first unless scoreDirection is "min"; centerX and centerY
\* of every returned matrix lie in 0..1.
C22_Centering ==
  IsMatrix =>
    /\ RLeq(Num(0), out.centerX) /\ RLeq(out.centerX, Num(1))
    /\ RLeq(Num(0), out.centerY) /\ RLeq(out.centerY, Num(1))
    /\ ~SpecIndexCondition(out, SpecRanges(out)) =>
         /\ out.centerX = SpecMedian(SpecTop(out, config.scoreDirection),
                                     [r \in ResultsIn(out) |-> r.xCoord])
         /\ out.centerY = SpecMedian(SpecTop(out, config.scoreDirection),
                                     [r \in ResultsIn(out) |-> r.yCoord])

\* thirty results centred on the ten of lowest score, whose centre is not
\* that of the ten of highest score
C22_Witness ==
  /\ IsMatrix
  /\ out.N = 30
  /\ config.scoreDirection = "min"
  /\ Cardinality(SpecTop(out, "min")) = 10
  /\ out.centerX # SpecMedian(SpecTop(out, "max"), [r \in ResultsIn(out) |-> r.xCoord])
  /\ out.centerX # Half

\* the sum of the scores of a list of results
RECURSIVE SpecScoreSum(_)
SpecScoreSum(rs) ==
  IF rs = <<>> THEN 0 ELSE Head(rs).score + SpecScoreSum(Tail(rs))

\* C23: for every non-empty cell, count is the length of its results list,
\* minScore and maxScore are the least and greatest score among these
\* results, avgScore * count is the sum of their scores, and
\* minScore <= avgScore <= maxScore.
C23_CellAggregation ==
  IsMatrix =>
    \A g \in Filled(out) :
       LET c == out.cells[g]
       IN /\ c.count = Len(c.results)
          /\ c.count >= 1
          /\ \E j \in DOMAIN c.results : c.minScore = Num(c.results[j].score)
          /\ \E j \in DOMAIN c.results : c.maxScore = Num(c.results[j].score)
          /\ \A j \in DOMAIN c.results :
                /\ RLeq(c.minScore, Num(c.results[j].score))
                /\ RLeq(Num(c.results[j].score), c.maxScore)
          /\ RMul(c.avgScore, Num(c.count)) = Num(SpecScoreSum(c.results))
          /\ RLeq(c.minScore, c.avgScore)
          /\ RLeq(c.avgScore, c.maxScore)

\* a cell of two results of different scores, its average strictly between
C23_Witness ==
  /\ IsMatrix
  /\ \E g \in Filled(out) :
        /\ out.cells[g].count = 2
        /\ RLess(out.cells[g].minScore, out.cells[g].avgScore)
        /\ RLess(out.cells[g].avgScore, out.cells[g].maxScore)
        /\ out.cells[g].avgScore[2] = 2

\* the scores of the results that pass the filters for the current inputs
FilteredScores ==
  {filteredOf(items, config, zoomRanges)[i].score :
     i \in DOMAIN filteredOf(items, config, zoomRanges)}

\* C24: scoreMin and scoreMax are the least and greatest score over the
\* results that pass the filters; scoreMin is the least minScore and
\* scoreMax the greatest maxScore of the non-empty cells, and
\* scoreMin <= minScore <= maxScore <= scoreMax in every non-empty cell.
C24_GlobalScoreRange ==
  IsMatrix =>
    /\ out.scoreMin = Num(SetMin(FilteredScores))
    /\ out.scoreMax = Num(SetMax(FilteredScores))
    /\ \E g \in Filled(out) : out.cells[g].minScore = out.scoreMin
    /\ \E g \in Filled(out) : out.cells[g].maxScore = out.scoreMax
    /\ \A g \in Filled(out) :
          /\ RLeq(out.scoreMin, out.cells[g].minScore)
          /\ RLeq(out.cells[g].minScore, out.cells[g].maxScore)
          /\ RLeq(out.cells[g].maxScore, out.scoreMax)

\* three results, the best one sharing its cell with a worse one while
\* the worst is in another cell
C24_Witness ==
  /\ IsMatrix
  /\ RLess(out.scoreMin, out.scoreMax)
  /\ out.N = 3
  /\ \E g \in Filled(out) :
        out.cells[g].count = 1 /\ out.cells[g].minScore = out.scoreMin
  /\ \E g \in Filled(out) :
        /\ out.cells[g].count = 2
        /\ out.cells[g].maxScore = out.scoreMax
        /\ RLess(out.cells[g].avgScore, out.scoreMax)
  /\ \E g \in Filled(out) :
        /\ out.cells[g].count >= 2
        /\ out.cells[g].maxScore = out.scoreMax
        /\ RLess(out.cells[g].avgScore, out.scoreMax)

\* clamp(floor(c * S), 0, S - 1) for a coordinate c = n/d >= 0: the index i
\* with i <= c * S < i + 1, or S - 1 when c * S >= S
SpecBin(c, S) ==
  IF c[1] >= c[2] THEN S - 1
  ELSE CHOOSE i \in 0..(S - 1) : i * c[2] <= c[1] * S /\ c[1] * S < (i + 1) * c[2]

\* C25: every filled cell lies in the H x W grid; every result of
\* cells[yi][xi] has xi = clamp(floor(xCentered * W), 0, W - 1) and
\* yi = clamp(floor(yCentered * H), 0, H - 1), a centred coordinate of 1
\* goes to the last index and one of 0 to index 0; every cell of the grid
\* records its own column and row as xi and yi.
C25_Binning ==
  IsMatrix =>
    /\ DOMAIN out.cells \subseteq Grid(out)
    /\ \A g \in DOMAIN out.cells :
          \A j \in DOMAIN out.cells[g].results :
             LET r == out.cells[g].results[j]
             IN /\ RLeq(Num(0), r.xCentered) /\ RLeq(Num(0), r.yCentered)
                /\ g[2] = SpecBin(r.xCentered, out.W)
                /\ g[1] = SpecBin(r.yCentered, out.H)
                /\ r.xCentered = Num(1) => g[2] = out.W - 1
                /\ r.yCentered = Num(1) => g[1] = out.H - 1
                /\ r.xCentered = Num(0) => g[2] = 0
                /\ r.yCentered = Num(0) => g[1] = 0
    /\ \A g \in Grid(out) :
          \A c \in {cellAt(out, g[1], g[2])} : c.xi = g[2] /\ c.yi = g[1]

\* a result with centred coordinates (1, 0) in the last column of the first
\* row, and one strictly inside the grid
C25_Witness ==
  /\ IsMatrix
  /\ <<0, out.W - 1>> \in DOMAIN out.cells
  /\ \E j \in DOMAIN out.cells[<<0, out.W - 1>>].results :
        /\ out.cells[<<0, out.W - 1>>].results[j].xCentered = Num(1)
        /\ out.cells[<<0, out.W - 1>>].results[j].yCentered = Num(0)
  /\ \E r \in ResultsIn(out) : RLess(Num(0), r.xCentered) /\ RLess(r.xCentered, Num(1))

\* C26: a non-empty cell whose ranges would give a matrix of the same N is
\* not drillable (its zoomRanges is null), and every drill-in gives a matrix
\* of strictly smaller N.
C26_DrillInNarrows ==
  /\ (IsMatrix /\ zoomRanges = Null) =>
        \A g \in Filled(out) :
           (/\ out.cells[g].zoomRanges # Null
            /\ buildHeatMap(items, config, out.cells[g].zoomRanges).kind = "matrix"
            /\ buildHeatMap(items, config, out.cells[g].zoomRanges).N = out.N)
             => ~isZoomable(out.cells[g])
  /\ (Built /\ last = "CellClick") => (out.kind = "matrix" /\ out.N < clicked.N)

C28_MonotoneNarrowing ==
  (Built /\ last = "CellClick" /\ AllAxisValuesPresent) =>
     /\ out.kind = "matrix"
     /\ IdsIn(out) \subseteq IdsIn(clicked.shown)
     /\ IdsOfCell(cellAt(clicked.shown, clicked.yi, clicked.xi)) \subseteq IdsIn(out)
     /\ out.N <= clicked.N
     /\ out.N >= clicked.count
     /\ clicked.count >= 1

\* a drill-in into a cell of two results of a matrix of three
C28_Witness ==
  /\ IsMatrix
  /\ last = "CellClick"
  /\ AllAxisValuesPresent
  /\ zoomStack # <<>>
  /\ clicked.count = 2
  /\ clicked.N = 3
  /\ out.N = 2

\* the config with the other score direction
SpecOtherDirection ==
  [config EXCEPT !.scoreDirection = IF config.scoreDirection = "min" THEN "max" ELSE "min"]

\* the first min(10, N) results of a matrix in the order by score
SpecTopTen(m, dir) ==
  {r \in ResultsIn(m) : Cardinality({q \in ResultsIn(m) : SpecBefore(dir, q, r)}) < 10}

\* C29: whenever the centre is computed (parameter coordinates), N < 100,
\* floor(N * 0.06) <= 5, k is 10 and the centre is the median over the first
\* min(10, N) results by score; for N <= 10 it is the median over all
\* results and the same for the other score direction.
C29_TopTen ==
  (IsMatrix /\ ~SpecIndexCondition(out, SpecRanges(out))) =>
     /\ out.N < 100
     /\ (6 * out.N) \div 100 <= 5
     /\ topK(out.N) = 10
     /\ Len(topOf([i \in 1..out.N |-> i])) = IF out.N < 10 THEN out.N ELSE 10
     /\ out.centerX = SpecMedian(SpecTopTen(out, config.scoreDirection),
                                 [r \in ResultsIn(out) |-> r.xCoord])
     /\ out.centerY = SpecMedian(SpecTopTen(out, config.scoreDirection),
                                 [r \in ResultsIn(out) |-> r.yCoord])
     /\ out.N <= 10 =>
          /\ out.centerX = SpecMedian(ResultsIn(out), [r \in ResultsIn(out) |-> r.xCoord])
          /\ out.centerY = SpecMedian(ResultsIn(out), [r \in ResultsIn(out) |-> r.yCoord])
          /\ buildHeatMap(items, SpecOtherDirection, zoomRanges).centerX = out.centerX
          /\ buildHeatMap(items, SpecOtherDirection, zoomRanges).centerY = out.centerY

\* 99 results placed by their parameters: the centre is the median of ten
C29_Witness ==
  /\ IsMatrix
  /\ out.N = 99
  /\ ~SpecIndexCondition(out, SpecRanges(out))
  /\ Cardinality(SpecTopTen(out, config.scoreDirection)) = 10
  /\ (6 * out.N) \div 100 = 5

\* C30: a cell click, a zoom out or a reset called with a run id that is
\* not the runId of the generated heat map, or called while no heat map is
\* generated, leaves the heat map state with its zoom stack as it is; and a
\* generation stores the run id of its configurator with an empty zoom
\* stack, whatever the zoom stack of the heat map before it was.
C30_RunIdGuard ==
  [][/\ \A id \in RunIds :
          (pc # "built" \/ runId # id) =>
             /\ handleHeatMapZoomOut(id) => UNCHANGED heatVars
             /\ handleHeatMapResetZoom(id) => UNCHANGED heatVars
             /\ \A yi \in rowsShown(id), xi \in colsShown(id) :
                   handleHeatMapCellClick(yi, xi, id) => UNCHANGED heatVars
     /\ (last' = "handleGenerate" /\ ~alerted') =>
          /\ zoomStack' = <<>>
          /\ runId' = showHeatMapConfig
          /\ zoomRanges' = Null
          /\ out' = buildHeatMap(items', config', Null)
    ]_vars

\* a reset called with the other run id has left a zoomed heat map zoomed
C30_Witness ==
  /\ pc = "built"
  /\ last = "handleHeatMapResetZoom"
  /\ zoomStack # <<>>
  /\ out = buildHeatMap(items, config, heatMapZoomRanges(zoomStack))

====
